---------------------------- MODULE Spec2Model ----------------------------
(***************************************************************************)
(* Monte Carlo betting engine of going_against_the_odds.ipynb:             *)
(* select_random_row, select_random_col, monte_carlo_sum, the timeseries   *)
(* cell and its np.percentile reduction.                                   *)
(*                                                                         *)
(* Conventions.  Arrays are sequences; the source's 0-based index k is     *)
(* position k+1.  Money is in whole dollars and odds in tenths, so that    *)
(* stake_per_game * (odds - 1) is an integer; arithmetic is exact (the     *)
(* rounding of float64 is not modelled).  Percentiles are carried times    *)
(* 100 (PctScale) so that the linear interpolation stays in the integers.  *)
(* numba's generator is a deterministic function of its state; the model   *)
(* keeps that and replaces the Mersenne Twister by a small congruential    *)
(* generator.  The generator state is process-wide: it is what the jitted  *)
(* functions leave behind, and it starts at an arbitrary (entropy) state.  *)
(***************************************************************************)
EXTENDS Integers, Sequences, FiniteSets, TLC

\* ---------------------------------------------------------------- bounds
MaxRows == 2        \* rows R of the outcome matrix
MaxIter == 2        \* iteration / n_iteration
MaxBatch == 3       \* batch / n_bets_ts
RngMod == 8         \* number of generator states
MaxRuns == 3        \* rows of a trajectory matrix given to np.percentile alone
MaxSteps == 2       \* columns of such a matrix

\* ------------------------------------------------------ program constants
initial_balance == 10000
stake_per_game == 10
SeedValue == 12345
PctScale == 100

\* A float that is not a number (np.nan): the one value that is no amount of
\* money.  Every arithmetic operation on it yields it again.
NaN == -1000000

\* Float addition.
Plus(x, y) == IF x = NaN \/ y = NaN THEN NaN ELSE x + y

outcomes == <<"1", "X", "2">>
quantiles_arr == <<1, 50, 99>>
DefaultCols == <<0, 1, 2>>

\* ------------------------------------------------------------- generator
\* One step of the generator.
NextState(s) == (5 * s + 3) % RngMod

\* (changed) the call has no effect on the generator.
np_random_seed_skipped(s, n) == s

\* np.random.seed(n) called in generator state s: the new state is a function
\* of the seed alone.
np_random_seed(s, n) == n % RngMod

\* One bounded integer in [0, n) from generator state s.
RandInt(s, n) == (s * n) \div RngMod

\* np.random.choice(n, size, replace=True) for an integer n: size draws, one
\* generator step each.  Result: the draws and the state left behind.
RECURSIVE ChoiceInt(_, _, _)
ChoiceInt(n, size, s) ==
    IF size = 0 THEN [out |-> <<>>, rng |-> s]
    ELSE LET s1 == NextState(s)
             rest == ChoiceInt(n, size - 1, s1)
         IN [out |-> <<RandInt(s1, n)>> \o rest.out, rng |-> rest.rng]

\* (changed) returns the drawn positions instead of the elements of a.
ChoiceArrIndex(a, size, s) == ChoiceInt(Len(a), size, s)

\* np.random.choice(a, size, replace=True) for an array a: picks elements of a.
ChoiceArr(a, size, s) ==
    LET c == ChoiceInt(Len(a), size, s)
    IN [out |-> [j \in 1..size |-> a[c.out[j] + 1]], rng |-> c.rng]

\* ------------------------------------------------------- outcome matrix
\* One row of df_mc_set: winner code and the three closing odds (in tenths).
ClosedOdds == <<20, 30, 40>>
EvenOdds == <<20, 20, 20>>

DfRows(odds) == {[winner_code_sofascore |-> outcomes[w], odds |-> odds] : w \in 1..3}

\* The betwin columns of one row: -stake everywhere, then the winnings in the
\* column whose outcome is the row's winner code.
Betwin(r) ==
    [k \in 1..3 |->
        IF r.winner_code_sofascore = outcomes[k]
        THEN (IF r.odds[k] = NaN THEN NaN
              ELSE (stake_per_game * (r.odds[k] - 10)) \div 10)
        ELSE 0 - stake_per_game]

\* arr_mc: the three betwin columns of every row.
ArrMc(df) == [r \in 1..Len(df) |-> Betwin(df[r])]

\* The data sets of the model: every table of 1..MaxRows rows over ClosedOdds,
\* and the 3 x 3 table whose matrix is [[10,-10,-10],[-10,10,-10],[-10,-10,10]].
ScenarioDf ==
    [w \in 1..3 |-> [winner_code_sofascore |-> outcomes[w], odds |-> EvenOdds]]

DataSets ==
    UNION {[1..n -> DfRows(ClosedOdds)] : n \in 1..MaxRows} \cup {ScenarioDf}

\* Rows that the filters of the notebook do not exclude: a winner code that is
\* none of the outcomes (a missing code), and a missing (NaN) odd.
NoWinnerCode == "nan"
OddRows ==
    {[winner_code_sofascore |-> NoWinnerCode, odds |-> ClosedOdds],
     [winner_code_sofascore |-> outcomes[1], odds |-> <<NaN, 30, 40>>]}

AnyDataSets ==
    UNION {[1..n -> DfRows(ClosedOdds) \cup OddRows] : n \in 1..MaxRows}

\* ----------------------------------------------------------- primitives
\* data[selected_rows, :]
TakeRows(data, selected_rows) ==
    [j \in 1..Len(selected_rows) |-> data[selected_rows[j] + 1]]

\* Array indexing in the jitted code: a negative index counts from the end.
Wrap(k, n) == IF k < 0 THEN k + n ELSE k

\* (changed) always reads the first row of the batch.
TakeColsFirstRow(data, selected_cols) ==
    [j \in 1..Len(data) |-> data[1][Wrap(selected_cols[j], Len(data[1])) + 1]]

\* selected_elements[row] = data[row, col] for row, col in enumerate(selected_cols)
TakeCols(data, selected_cols) ==
    [j \in 1..Len(data) |-> data[j][Wrap(selected_cols[j], Len(data[j])) + 1]]

\* (changed) never draws more rows than the matrix has.
select_random_row_capped(data, num_rows, s) ==
    LET N_rows == Len(data)
        c == ChoiceInt(N_rows, IF num_rows < N_rows THEN num_rows ELSE N_rows, s)
    IN [out |-> TakeRows(data, c.out), selected_rows |-> c.out, rng |-> c.rng,
        data |-> data]

\* (changed) samples in place: row 0 of data is overwritten by the first draw.
select_random_row_inplace(data, num_rows, s) ==
    LET N_rows == Len(data)
        c == ChoiceInt(N_rows, num_rows, s)
    IN [out |-> TakeRows(data, c.out), selected_rows |-> c.out, rng |-> c.rng,
        data |-> IF num_rows > 0 THEN [data EXCEPT ![1] = data[c.out[1] + 1]]
                 ELSE data]

\* The array argument is passed by reference: field data is the caller's array
\* as the call leaves it (data[selected_rows, :] is a copy).
select_random_row(data, num_rows, s) ==
    LET N_rows == Len(data)
        c == ChoiceInt(N_rows, num_rows, s)
    IN [out |-> TakeRows(data, c.out), selected_rows |-> c.out, rng |-> c.rng,
        data |-> data]

select_random_col(data, num_cols, s) ==
    LET N_rows == Len(data)
        c == ChoiceArr(num_cols, N_rows, s)
    IN [out |-> TakeCols(data, c.out), selected_cols |-> c.out, rng |-> c.rng,
        data |-> data]

\* element_arr.sum()
RECURSIVE Sum(_)
Sum(a) == IF a = <<>> THEN 0 ELSE Plus(a[1], Sum(Tail(a)))

\* (changed) exclusive running sum.
CumSumExclusive(a) == [t \in 1..Len(a) |-> Sum(SubSeq(a, 1, t - 1))]

\* np.cumsum(a): inclusive running sum.
CumSum(a) == [t \in 1..Len(a) |-> Sum(SubSeq(a, 1, t))]

\* np.empty: the contents are whatever the allocation holds.
Garbage == {0, -1}
Empty1(n) == [1..n -> Garbage]
Empty2(n, m) == {[r \in 1..n |-> [t \in 1..m |-> g[r]]] : g \in [1..n -> Garbage]}


\* (changed) writes slot k and every slot after it (arr[k:] = v).
StoreFill(arr, k, v) == [j \in 1..Len(arr) |-> IF j >= k + 1 THEN v ELSE arr[j]]

\* (changed) fills the array from its end.
StoreReversed(arr, k, v) == [arr EXCEPT ![Len(arr) - k] = v]

\* (changed) always writes slot 0.
StoreFirst(arr, k, v) == [arr EXCEPT ![1] = v]

\* profit_arr[i] = profit, timeseries_arr[i] = timeseries_balance
Store(arr, k, v) == [arr EXCEPT ![k + 1] = v]

\* --------------------------------------------------------- np.percentile
Column(a, t) == [r \in 1..Len(a) |-> a[r][t]]

\* (changed) the column is taken in run order.
Unsorted(col) == col

Sorted(col) == SortSeq(col, LAMBDA x, y : x < y)

\* (changed) interpolates away from the upper neighbour.
PercentileWrongNeighbour(col, p) ==
    LET n == Len(col)
        srt == Sorted(col)
        h == (n - 1) * p
        lo == h \div PctScale
        hi == IF lo + 1 < n THEN lo + 1 ELSE lo
        frac == h % PctScale
    IN PctScale * srt[lo + 1] - frac * (srt[hi + 1] - srt[lo + 1])

\* (changed) nearest rank: the order statistic closest to the virtual index.
PercentileNearestRank(col, p) ==
    LET n == Len(col)
        srt == Sorted(col)
        h == (n - 1) * p
    IN PctScale * srt[((2 * h + PctScale) \div (2 * PctScale)) + 1]

\* The p-th percentile of one column, times PctScale: linear interpolation
\* between the order statistics around the virtual index (n - 1) * p / 100.
Percentile(col, p) ==
    LET n == Len(col)
        srt == Sorted(col)
        h == (n - 1) * p
        lo == h \div PctScale
        hi == IF lo + 1 < n THEN lo + 1 ELSE lo
        frac == h % PctScale
    IN PctScale * srt[lo + 1] + frac * (srt[hi + 1] - srt[lo + 1])

\* np.percentile(a, q, axis=0): one row per percentile, one column per time step.
np_percentile(a, q) ==
    [j \in 1..Len(q) |-> [t \in 1..Len(a[1]) |-> Percentile(Column(a, t), q[j])]]

\* ----------------------------------------------------------------- state
VARIABLES
    df_mc_set,       \* winner code and closing odds per match
    arr_mc,          \* the outcome matrix
    rng,             \* state of the process-wide generator
    pc,              \* "idle", "mc", "mc_done", "ts", "ts_done" ("ts_permuted": SpecQ)
    iteration,       \* monte_carlo_sum: argument
    batch,           \* monte_carlo_sum: argument
    cols,            \* monte_carlo_sum: argument
    i,               \* loop index of the run in progress
    profit_arr,      \* monte_carlo_sum: local result array
    mc_profits,      \* what monte_carlo_sum returned
    n_iteration,     \* timeseries cell: number of runs
    n_bets_ts,       \* timeseries cell: number of bets per run
    timeseries_arr,  \* timeseries cell: balance trajectories
    quantiles,       \* timeseries cell: percentiles per time step (times PctScale)
    draws,           \* history: per iteration of the current run, what the two
                     \* select functions drew and returned
    first_ts         \* history: the first completed timeseries run (SpecRerun)

vars == <<df_mc_set, arr_mc, rng, pc, iteration, batch, cols, i, profit_arr, mc_profits,
          n_iteration, n_bets_ts, timeseries_arr, quantiles, draws, first_ts>>

mcVars == <<iteration, batch, cols, profit_arr, mc_profits>>
tsVars == <<n_iteration, n_bets_ts, timeseries_arr, quantiles>>

CanStart == pc \in {"idle", "mc_done", "ts_done"}

\* The variables of the two cells before either has run.  A cell reads nothing
\* that an earlier engine run produced, so the model clears the other cell's
\* variables when a run starts.
McCleared ==
    /\ iteration = 0 /\ batch = 0 /\ cols = <<>>
    /\ profit_arr = <<>> /\ mc_profits = <<>>
TsCleared ==
    /\ n_iteration = 0 /\ n_bets_ts = 0
    /\ timeseries_arr = <<>> /\ quantiles = <<>>
ClearMc ==
    /\ iteration' = 0 /\ batch' = 0 /\ cols' = <<>>
    /\ profit_arr' = <<>> /\ mc_profits' = <<>>
ClearTs ==
    /\ n_iteration' = 0 /\ n_bets_ts' = 0
    /\ timeseries_arr' = <<>> /\ quantiles' = <<>>

Init ==
    /\ df_mc_set \in DataSets
    /\ arr_mc = ArrMc(df_mc_set)
    /\ rng \in 0..(RngMod - 1)
    /\ pc = "idle"
    /\ i = 0
    /\ McCleared
    /\ TsCleared
    /\ draws = <<>>
    /\ first_ts = <<>>

\* ------------------------------------------------------- monte_carlo_sum
\* (changed) the generator is seeded again at the start of every iteration.
IterationReseeded(data, num, columns, s) ==
    LET r == select_random_row(data, num, np_random_seed(s, SeedValue))
        e == select_random_col(r.out, columns, r.rng)
    IN [selected_rows |-> r.selected_rows, row_arr |-> r.out,
        selected_cols |-> e.selected_cols, element_arr |-> e.out,
        rng |-> e.rng, data |-> r.data]

\* What one loop iteration draws and computes from generator state s; data is
\* the matrix as the two calls leave it (select_random_col gets the copy).
Iteration(data, num, columns, s) ==
    LET r == select_random_row(data, num, s)
        e == select_random_col(r.out, columns, r.rng)
    IN [selected_rows |-> r.selected_rows, row_arr |-> r.out,
        selected_cols |-> e.selected_cols, element_arr |-> e.out,
        rng |-> e.rng, data |-> r.data]

\* Call: bind the arguments, seed the generator, allocate profit_arr.
MCStart(it, b, c) ==
    /\ CanStart
    /\ pc' = "mc"
    /\ iteration' = it /\ batch' = b /\ cols' = c
    /\ rng' = np_random_seed(rng, SeedValue)
    /\ profit_arr' \in Empty1(it)
    /\ mc_profits' = <<>>
    /\ i' = 0
    /\ draws' = <<>>
    /\ ClearTs
    /\ UNCHANGED <<df_mc_set, arr_mc, first_ts>>

\* One pass of "for i in range(iteration)".
MCIter ==
    /\ pc = "mc" /\ i < iteration
    /\ LET it == Iteration(arr_mc, batch, cols, rng)
           profit == Sum(it.element_arr)
       IN /\ profit_arr' = Store(profit_arr, i, profit)
          /\ arr_mc' = it.data
          /\ rng' = it.rng
          /\ draws' = Append(draws, [selected_rows |-> it.selected_rows,
                                     row_arr |-> it.row_arr,
                                     selected_cols |-> it.selected_cols,
                                     element_arr |-> it.element_arr])
    /\ i' = i + 1
    /\ UNCHANGED <<df_mc_set, pc, iteration, batch, cols, mc_profits, tsVars, first_ts>>

\* return profit_arr
MCReturn ==
    /\ pc = "mc" /\ i = iteration
    /\ mc_profits' = profit_arr
    /\ pc' = "mc_done"
    /\ UNCHANGED <<df_mc_set, arr_mc, rng, iteration, batch, cols, i, profit_arr, tsVars,
                   draws, first_ts>>

\* ------------------------------------------------------- timeseries cell
\* timeseries_arr = np.empty([n_iteration, n_bets_ts]); the generator is left
\* where the process has it.
TSStart(n, t) ==
    /\ CanStart
    /\ pc' = "ts"
    /\ n_iteration' = n /\ n_bets_ts' = t
    /\ timeseries_arr' \in Empty2(n, t)
    /\ quantiles' = <<>>
    /\ i' = 0
    /\ draws' = <<>>
    /\ ClearMc
    /\ UNCHANGED <<df_mc_set, arr_mc, rng, first_ts>>

\* (changed) the payouts are not accumulated.
BalanceNoCumSum(element_arr) ==
    [t \in 1..Len(element_arr) |-> Plus(initial_balance, element_arr[t])]

\* initial_balance + np.cumsum(...)
Balance(element_arr) ==
    LET c == CumSum(element_arr)
    IN [t \in 1..Len(c) |-> Plus(initial_balance, c[t])]

\* One pass of "for i in range(n_iteration)".
TSIter ==
    /\ pc = "ts" /\ i < n_iteration
    /\ LET it == Iteration(arr_mc, n_bets_ts, DefaultCols, rng)
           timeseries_balance == Balance(it.element_arr)
       IN /\ timeseries_arr' = Store(timeseries_arr, i, timeseries_balance)
          /\ arr_mc' = it.data
          /\ rng' = it.rng
          /\ draws' = Append(draws, [selected_rows |-> it.selected_rows,
                                     row_arr |-> it.row_arr,
                                     selected_cols |-> it.selected_cols,
                                     element_arr |-> it.element_arr])
    /\ i' = i + 1
    /\ UNCHANGED <<df_mc_set, pc, n_iteration, n_bets_ts, quantiles, mcVars, first_ts>>

\* After the loop: quantiles = np.percentile(timeseries_arr, quantiles_arr, axis=0)
TSPercentile ==
    /\ pc = "ts" /\ i = n_iteration
    /\ quantiles' = np_percentile(timeseries_arr, quantiles_arr)
    /\ pc' = "ts_done"
    /\ UNCHANGED <<df_mc_set, arr_mc, rng, i, n_iteration, n_bets_ts, timeseries_arr, mcVars,
                   draws>>

\* ------------------------------------------------------- specifications
\* cols: the default, every single column (cols=np.array([0]) in the source),
\* and a two-column subset.
ColsChoices == {DefaultCols, <<0, 2>>} \cup {<<k>> : k \in 0..2}

CallMC == \E it \in 0..MaxIter, b \in 1..MaxBatch, c \in ColsChoices : MCStart(it, b, c)
RunTS == \E n \in 1..MaxIter, t \in 1..MaxBatch : TSStart(n, t)

\* The notebook session: engine runs in any order, any number of times.
Next ==
    \/ CallMC
    \/ MCIter
    \/ MCReturn
    \/ RunTS
    \/ TSIter
    \/ TSPercentile /\ UNCHANGED first_ts

Spec == Init /\ [][Next]_vars

\* The timeseries cell run again and again, remembering its first completed run.
RememberFirst ==
    first_ts' = IF first_ts = <<>>
                THEN <<[n_iteration |-> n_iteration, n_bets_ts |-> n_bets_ts,
                        timeseries_arr |-> timeseries_arr]>>
                ELSE first_ts

NextRerun ==
    \/ RunTS
    \/ TSIter
    \/ TSPercentile /\ RememberFirst

SpecRerun == Init /\ [][NextRerun]_vars

\* ------------------------------------------ np.percentile on any matrix
\* The state after the timeseries loop, for any trajectory matrix of balances.
BalanceValues == {initial_balance - stake_per_game, initial_balance + stake_per_game}

InitQ ==
    /\ df_mc_set = ScenarioDf
    /\ arr_mc = ArrMc(df_mc_set)
    /\ rng \in {np_random_seed(0, SeedValue)}
    /\ pc = "ts"
    /\ \E n \in 1..MaxRuns, t \in 1..MaxSteps :
          /\ n_iteration = n /\ n_bets_ts = t /\ i = n
          /\ timeseries_arr \in [1..n -> [1..t -> BalanceValues]]
    /\ quantiles = <<>>
    /\ McCleared
    /\ draws = <<>>
    /\ first_ts = <<>>

\* Exchange the values of runs r1 and r2 at time step t.
PermuteColumn(t, r1, r2) ==
    /\ pc \in {"ts_done", "ts_permuted"}
    /\ timeseries_arr[r1][t] # timeseries_arr[r2][t]
    /\ pc' = "ts_permuted"
    /\ timeseries_arr' =
          [timeseries_arr EXCEPT ![r1][t] = timeseries_arr[r2][t],
                                 ![r2][t] = timeseries_arr[r1][t]]
    /\ UNCHANGED <<df_mc_set, arr_mc, rng, i, n_iteration, n_bets_ts, quantiles, mcVars,
                   draws, first_ts>>

NextQ ==
    \/ TSPercentile /\ UNCHANGED first_ts
    \/ \E t \in 1..n_bets_ts, r1 \in 1..n_iteration, r2 \in 1..n_iteration :
          PermuteColumn(t, r1, r2)

SpecQ == InitQ /\ [][NextQ]_vars

\* ------------------------------------------- calls with any arguments
\* monte_carlo_sum has no argument checks: the session with any table the
\* filters let through, batch = 0 and a negative column index included.
InitArgs ==
    /\ df_mc_set \in AnyDataSets
    /\ arr_mc = ArrMc(df_mc_set)
    /\ rng \in 0..(RngMod - 1)
    /\ pc = "idle"
    /\ i = 0
    /\ McCleared
    /\ TsCleared
    /\ draws = <<>>
    /\ first_ts = <<>>

AnyCols == ColsChoices \cup {<<0 - 1>>}

CallMCAny == \E it \in 0..MaxIter, b \in 0..MaxBatch, c \in AnyCols : MCStart(it, b, c)

NextArgs ==
    \/ CallMCAny
    \/ MCIter
    \/ MCReturn

SpecArgs == InitArgs /\ [][NextArgs]_vars

TypeOK ==
    /\ pc \in {"idle", "mc", "mc_done", "ts", "ts_done", "ts_permuted"}
    /\ rng \in 0..(RngMod - 1)
    /\ i \in Nat


\* ================================================================ claims
InMC == pc \in {"mc", "mc_done"}
InTS == pc \in {"ts", "ts_done"}
Quantiled == pc \in {"ts_done", "ts_permuted"}

\* The arguments the select functions got in the current run.
NumDrawn == IF InMC THEN batch ELSE n_bets_ts
EnabledCols == IF InMC THEN cols ELSE DefaultCols
Range(a) == {a[j] : j \in 1..Len(a)}

\* The profits of n iterations from generator state s, as a function of the
\* arguments alone.
RECURSIVE TerminalFrom(_, _, _, _, _)
TerminalFrom(data, n, b, c, s) ==
    IF n = 0 THEN <<>>
    ELSE LET it == Iteration(data, b, c, s)
         IN <<Sum(it.element_arr)>> \o TerminalFrom(data, n - 1, b, c, it.rng)

\* C1: the array monte_carlo_sum returns is a function of (matrix, iterations,
\* batch, enabled columns) under the fixed seed: it is the array the seeded
\* stream yields, whatever state the generator was in when the call was made.
\* Hence two calls with identical arguments return identical arrays.
Thm_C1_TerminalDeterminism ==
    pc = "mc_done" =>
        mc_profits = TerminalFrom(arr_mc, iteration, batch, cols, SeedValue % RngMod)

Wit_C1_TwoProfits ==
    /\ pc = "mc_done" /\ iteration >= 2
    /\ mc_profits[1] # mc_profits[2]

\* C2: a timeseries run with the same (matrix, iterations, numBets, columns,
\* initial balance) as the first completed run yields the same trajectory
\* matrix.
Cex_C2_TrajectoryReproducible ==
    (/\ pc = "ts_done" /\ first_ts # <<>>
     /\ first_ts[1].n_iteration = n_iteration
     /\ first_ts[1].n_bets_ts = n_bets_ts)
    => timeseries_arr = first_ts[1].timeseries_arr

\* The profit monte_carlo_sum computes in one iteration whose draws are the
\* given row indices and columns.
TerminalProfit(data, selected_rows, selected_cols) ==
    Sum(TakeCols(TakeRows(data, selected_rows), selected_cols))

\* C3: for every run of the timeseries loop, the last element of the run's
\* trajectory minus initial_balance equals the terminal profit of one
\* monte_carlo_sum iteration with the same row indices and columns.
Thm_C3_TrajectoryTerminalConsistency ==
    InTS =>
        \A k \in 1..Len(draws) :
            timeseries_arr[k][n_bets_ts] - initial_balance
                = TerminalProfit(arr_mc, draws[k].selected_rows, draws[k].selected_cols)

Wit_C3_LastDiffersFromFirst ==
    /\ pc = "ts_done" /\ n_bets_ts >= 2
    /\ timeseries_arr[1][n_bets_ts] # timeseries_arr[1][1]

\* Sum of column k (0-based) of the matrix over the given row indices.
RECURSIVE ColumnSum(_, _, _)
ColumnSum(data, rows, k) ==
    IF rows = <<>> THEN 0
    ELSE data[rows[1] + 1][k + 1] + ColumnSum(data, Tail(rows), k)

Count(rows, r) == Cardinality({j \in 1..Len(rows) : rows[j] = r})

\* C4: with a single enabled column k every iteration's profit is the sum of
\* matrix[row, k] over the sampled row indices; on the 3 x 3 scenario matrix
\* with k = 0 and batch 3 it is 10 * (draws of row 0) - 10 * (draws of rows 1, 2).
Thm_C4_SingleColumn ==
    (InMC /\ Len(cols) = 1) =>
        \A j \in 1..Len(draws) :
            /\ profit_arr[j] = ColumnSum(arr_mc, draws[j].selected_rows, cols[1])
            /\ (arr_mc = ArrMc(ScenarioDf) /\ cols = <<0>> /\ batch = 3) =>
                  profit_arr[j] = 10 * Count(draws[j].selected_rows, 0)
                                  - 10 * (Count(draws[j].selected_rows, 1)
                                          + Count(draws[j].selected_rows, 2))

Wit_C4_Scenario ==
    /\ pc = "mc_done" /\ iteration >= 1
    /\ arr_mc = ArrMc(ScenarioDf) /\ cols = <<0>> /\ batch = 3
    /\ Cardinality(Range(draws[1].selected_rows)) >= 2

\* C5: select_random_row returns exactly B rows, each the matrix row at the
\* drawn index, every index in [0, R), also when B > R; with R = 1 every
\* returned row is the single row.
Thm_C5_RowSampling ==
    \A k \in 1..Len(draws) :
        LET d == draws[k] IN
        /\ Len(d.row_arr) = NumDrawn
        /\ Len(d.selected_rows) = NumDrawn
        /\ \A j \in 1..Len(d.row_arr) :
              /\ d.selected_rows[j] \in 0..(Len(arr_mc) - 1)
              /\ d.row_arr[j] = arr_mc[d.selected_rows[j] + 1]
        /\ Len(arr_mc) = 1 => \A j \in 1..Len(d.row_arr) : d.row_arr[j] = arr_mc[1]

Wit_C5_BatchAboveRows ==
    /\ Len(draws) >= 1
    /\ NumDrawn > Len(arr_mc) /\ Len(arr_mc) >= 2
    /\ Len(draws[1].row_arr) = NumDrawn
    /\ Cardinality(Range(draws[1].selected_rows)) = Len(arr_mc)

\* C6: select_random_col returns one value per row of the batch; the value at
\* position j is the cell of batch row j in a column of the enabled set; and
\* every enabled column can be the one chosen at every position (for some
\* state of the generator).
Thm_C6_ColumnSelection ==
    \A k \in 1..Len(draws) :
        LET d == draws[k] IN
        /\ Len(d.element_arr) = Len(d.row_arr)
        /\ Len(d.selected_cols) = Len(d.row_arr)
        /\ \A j \in 1..Len(d.element_arr) :
              /\ d.selected_cols[j] \in Range(EnabledCols)
              /\ d.element_arr[j] = d.row_arr[j][d.selected_cols[j] + 1]
              /\ \A c \in Range(EnabledCols) :
                    \E s \in 0..(RngMod - 1) :
                        select_random_col(d.row_arr, EnabledCols, s).selected_cols[j] = c

Wit_C6_TwoColumnsTwoRows ==
    /\ pc = "mc_done" /\ cols = <<0, 2>>
    /\ Len(draws) >= 1
    /\ Cardinality(Range(draws[1].selected_cols)) >= 2
    /\ Cardinality(Range(draws[1].row_arr)) >= 2

\* C7: monte_carlo_sum returns exactly `iteration` entries, entry i being the
\* profit iteration i computed; with iteration = 0 the loop body never runs,
\* the return is reachable at once and the result is empty.
Thm_C7_TerminalShape ==
    /\ pc = "mc_done" =>
          /\ Len(mc_profits) = iteration
          /\ Len(draws) = iteration
          /\ \A j \in 1..iteration : mc_profits[j] = Sum(draws[j].element_arr)
    /\ (pc = "mc" /\ iteration = 0) => (ENABLED MCReturn /\ ~ENABLED MCIter)
    /\ (pc = "mc_done" /\ iteration = 0) => mc_profits = <<>>

Wit_C7_AllSlotsFilled ==
    /\ pc = "mc_done" /\ iteration >= 2
    /\ \A j \in 1..iteration : mc_profits[j] \notin Garbage

\* C8: element t of run i is initial_balance plus the sum of the first t+1
\* selected payouts of the run; consecutive elements differ by the selected
\* payout, which is the matrix cell at the drawn row and (enabled) column.
Thm_C8_TrajectoryDefinition ==
    InTS =>
        \A k \in 1..Len(draws) :
            LET d == draws[k] IN
            /\ Len(timeseries_arr[k]) = n_bets_ts
            /\ \A t \in 1..n_bets_ts :
                  /\ timeseries_arr[k][t]
                        = initial_balance + Sum(SubSeq(d.element_arr, 1, t))
                  /\ t = 1 => timeseries_arr[k][1] = initial_balance + d.element_arr[1]
                  /\ t > 1 => timeseries_arr[k][t] - timeseries_arr[k][t - 1]
                                 = d.element_arr[t]
                  /\ d.selected_cols[t] \in Range(DefaultCols)
                  /\ d.element_arr[t]
                        = arr_mc[d.selected_rows[t] + 1][d.selected_cols[t] + 1]

Wit_C8_TwoRunsTwoBets ==
    /\ pc = "ts_done" /\ n_iteration >= 2 /\ n_bets_ts >= 2
    /\ timeseries_arr[1] # timeseries_arr[2]

\* C9: at every time step the percentile values are non-decreasing in the
\* percentile rank (p1 <= p50 <= p99).
Thm_C9_QuantileMonotone ==
    Quantiled =>
        \A t \in 1..n_bets_ts :
            \A j1, j2 \in 1..Len(quantiles_arr) :
                j1 < j2 => quantiles[j1][t] <= quantiles[j2][t]

Wit_C9_SpreadColumn ==
    /\ pc = "ts_done" /\ n_iteration >= 3
    /\ \E t \in 1..n_bets_ts :
          /\ quantiles[1][t] < quantiles[2][t]
          /\ timeseries_arr[1][t] > timeseries_arr[2][t]

\* C10: the percentiles computed for a matrix are the percentiles of every
\* matrix obtained from it by permuting values within columns.
Thm_C10_QuantileOrderIndependent ==
    Quantiled => quantiles = np_percentile(timeseries_arr, quantiles_arr)

Wit_C10_Permuted ==
    /\ pc = "ts_permuted" /\ n_iteration >= 3 /\ n_bets_ts >= 2
    /\ \E t \in 1..n_bets_ts : Sorted(Column(timeseries_arr, t)) # Column(timeseries_arr, t)


\* Order statistic of rank k (0-based) of a column, by counting.
OrderStat(col, k) ==
    CHOOSE v \in Range(col) :
        /\ Cardinality({r \in 1..Len(col) : col[r] < v}) <= k
        /\ k < Cardinality({r \in 1..Len(col) : col[r] <= v})

\* C11: the p-th percentile of a column of n values is the linear
\* interpolation between the order statistics of ranks floor(h) and ceil(h),
\* h = (n-1)*p/100; it lies between the column's minimum and maximum and is
\* the order statistic of rank h when h is an integer.
Thm_C11_PercentileDefinition ==
    Quantiled =>
        \A t \in 1..n_bets_ts, j \in 1..Len(quantiles_arr) :
            LET col == Column(timeseries_arr, t)
                n == Len(col)
                h == (n - 1) * quantiles_arr[j]
                lo == h \div PctScale
                hi == IF lo + 1 < n THEN lo + 1 ELSE lo
                q == quantiles[j][t]
            IN /\ q = PctScale * OrderStat(col, lo)
                      + (h % PctScale) * (OrderStat(col, hi) - OrderStat(col, lo))
               /\ PctScale * OrderStat(col, 0) <= q
               /\ q <= PctScale * OrderStat(col, n - 1)
               /\ h % PctScale = 0 => q = PctScale * OrderStat(col, h \div PctScale)

Wit_C11_Midpoint ==
    /\ pc = "ts_done" /\ n_iteration = 2
    /\ timeseries_arr[1][1] # timeseries_arr[2][1]
    /\ 2 * quantiles[2][1] = PctScale * (timeseries_arr[1][1] + timeseries_arr[2][1])

\* C12: a call with batch <= 0, or on a matrix without rows, fails before any
\* draw is made and before anything is returned.
Cex_C12_RowSamplerValidation ==
    (InMC /\ (batch <= 0 \/ Len(arr_mc) = 0)) => (draws = <<>> /\ pc # "mc_done")

\* C13: a call whose cols is empty or holds an index outside [0, K) fails: it
\* selects no payout and returns nothing.
Cex_C13_ColumnValidation ==
    (InMC /\ (cols = <<>> \/ \E j \in 1..Len(cols) : cols[j] \notin 0..(Len(arr_mc[1]) - 1)))
        => (draws = <<>> /\ pc # "mc_done")

\* C14: no returned terminal profit has a non-finite payout summed into it.
Cex_C14_NumericAnomaly ==
    pc = "mc_done" =>
        \A k \in 1..Len(draws) :
            /\ \A j \in 1..Len(draws[k].element_arr) : draws[k].element_arr[j] # NaN
            /\ mc_profits[k] # NaN

\* C15: in every row of the matrix exactly one column holds the win value
\* stake * (odds - 1) of the row's result and every other column holds -stake.
Cex_C15_OneWinPerRow ==
    \A r \in 1..Len(arr_mc) :
        \E k \in 1..Len(outcomes) :
            /\ df_mc_set[r].winner_code_sofascore = outcomes[k]
            /\ arr_mc[r][k] = (stake_per_game * (df_mc_set[r].odds[k] - 10)) \div 10
            /\ \A k2 \in (1..Len(outcomes)) \ {k} : arr_mc[r][k2] = 0 - stake_per_game

\* C16: no step of a terminal or trajectory run changes the outcome matrix.
Thm_C16_MatrixReadOnly == [][arr_mc' = arr_mc]_vars

Wit_C16_AfterRuns ==
    /\ pc = "ts_done" /\ n_iteration >= 2 /\ Len(arr_mc) >= 2
    /\ Cardinality(Range(draws[1].selected_rows)) >= 2

\* C17: iteration i writes slot i of the output and no other slot, and the
\* loop index advances by one, so every slot is written once and a slot
\* written earlier is not modified later; the return changes no slot.
Thm_C17_OwnOutputSlot ==
    [][/\ (pc = "mc" /\ pc' = "mc") =>
            /\ i' = i + 1
            /\ profit_arr'[i + 1] = Sum(draws'[i + 1].element_arr)
            /\ \A k \in 1..iteration : k # i + 1 => profit_arr'[k] = profit_arr[k]
       /\ (pc = "ts" /\ pc' = "ts") =>
            /\ i' = i + 1
            /\ timeseries_arr'[i + 1] = Balance(draws'[i + 1].element_arr)
            /\ \A k \in 1..n_iteration :
                  k # i + 1 => timeseries_arr'[k] = timeseries_arr[k]
       /\ (pc = "mc" /\ pc' = "mc_done") => mc_profits' = profit_arr
       /\ (pc = "ts" /\ pc' = "ts_done") => timeseries_arr' = timeseries_arr]_vars

Wit_C17_SecondSlotPending ==
    /\ pc = "mc" /\ i = 1 /\ iteration >= 2
    /\ profit_arr[1] = Sum(draws[1].element_arr)

\* The first n states the generator goes through after state s.
RECURSIVE StreamFrom(_, _)
StreamFrom(s, n) ==
    IF n = 0 THEN <<>> ELSE <<NextState(s)>> \o StreamFrom(NextState(s), n - 1)

\* C18: in a call of monte_carlo_sum the stream starts at the seed; iteration
\* k (1-based) takes its batch row indices from stream positions
\* (k-1)*2*batch + 1 .. (k-1)*2*batch + batch and its column choices from the
\* batch positions after them; the generator is left after position 2*batch*i.
Thm_C18_StreamDiscipline ==
    InMC =>
        LET st == StreamFrom(SeedValue % RngMod, 2 * batch * iteration)
        IN /\ rng = IF i = 0 \/ batch = 0 THEN SeedValue % RngMod ELSE st[2 * batch * i]
           /\ \A k \in 1..Len(draws), j \in 1..batch :
                 /\ draws[k].selected_rows[j]
                       = RandInt(st[(k - 1) * 2 * batch + j], Len(arr_mc))
                 /\ draws[k].selected_cols[j]
                       = cols[RandInt(st[(k - 1) * 2 * batch + batch + j], Len(cols)) + 1]

Wit_C18_TwoSegments ==
    /\ pc = "mc_done" /\ iteration >= 2 /\ batch >= 2 /\ Len(cols) >= 2
    /\ draws[1].selected_rows # draws[2].selected_rows
    /\ draws[1].selected_cols # draws[2].selected_cols

\* C19: the first n entries of a call with iteration = m are the entries of
\* the call with iteration = n, for every n <= m, during the loop (the slots
\* filled so far) and in the returned array.
Thm_C19_PrefixStability ==
    /\ pc = "mc" =>
          \A n \in 0..i :
              SubSeq(profit_arr, 1, n)
                  = TerminalFrom(arr_mc, n, batch, cols, SeedValue % RngMod)
    /\ pc = "mc_done" =>
          \A n \in 0..iteration :
              SubSeq(mc_profits, 1, n)
                  = TerminalFrom(arr_mc, n, batch, cols, SeedValue % RngMod)

Wit_C19_LongerRun ==
    /\ pc = "mc_done" /\ iteration >= 2 /\ batch >= 2
    /\ SubSeq(mc_profits, 1, 1) = TerminalFrom(arr_mc, 1, batch, cols, SeedValue % RngMod)
    /\ mc_profits[1] # mc_profits[2]

=============================================================================
